---- MODULE Spec2Model ----
(***************************************************************************)
(* Model of the indexing engine of mcp-code-search:                        *)
(*   IndexManager.index_file / _store_ast_data / delete_file               *)
(*   (src/index/manager.py), the session scope of DatabaseManager          *)
(*   (src/db/connection.py), SQLiteVectorStore.add_chunks / delete_by_file *)
(*   (src/db/vectorstore/sqlite.py) and the is_file_indexed tool.          *)
(*                                                                         *)
(* The persisted state is what a concurrent reader can observe: the        *)
(* indexed_files table, the vector table with its chunk_file_map, and the  *)
(* symbols and code_relationships tables.  One step of the model is one    *)
(* code section that ends in a commit (or in the return of the call), so   *)
(* every reachable state is a state a reader, or a crash, can meet.        *)
(*                                                                         *)
(* Two further specifications share the module: WorkerSpec, the scheduler  *)
(* IndexWorker (src/index/worker.py) over a repository that is committed   *)
(* to while cycles run, and ExtractSpec, the extraction layer              *)
(* (src/analyzers).  Each specification moves its own variables and        *)
(* leaves those of the others at their initial values.                     *)
(***************************************************************************)
EXTENDS Integers, Sequences, FiniteSets, Bags, TLC

\* ------------------------------------------------------------------ bounds
MaxContent == 2      \* file contents are 0..MaxContent (0 is the empty file)
MaxRowid == 3        \* the vector table never grows past this rowid
MaxFaults == 1       \* exceptions and crashes injected in one behaviour

\* -------------------------------------------------------- program constants
AstMaxFileSize == 100000

Paths == {"a.py", "b.py"}
Contents == 0..MaxContent
NoFile == -1

\* What index_file can find on disk at a path: a.py is edited freely, b.py
\* is a second file that is there with one content, or not there.
OnDisk(p) == (IF p = "a.py" THEN Contents ELSE {1}) \cup {NoFile}

EnableAst == TRUE

VARIABLES
    records,         \* table indexed_files, keyed by file_path (persisted)
    chunks,          \* the vector table: rowid -> row (persisted)
    chunk_file_map,  \* table chunk_file_map: rowid -> file_path (persisted)
    symbols,         \* table symbols, a bag of rows (persisted)
    relationships,   \* table code_relationships, a bag of rows (persisted)
    op,              \* the file operation in flight: its position and its session
    faults           \* how many exceptions and crashes the environment has injected

\* The scheduler and the repository it watches.
VARIABLES
    history,         \* the commits made since construction, oldest first
    gitignore,       \* GitignoreFilter._spec: the rules the worker has loaded
    running,         \* IndexWorker._running
    tasks,           \* every task start() has created; the last is _task
    last_commit,     \* IndexWorker._last_commit
    covered          \* the commits that were in the change set of some cycle

\* The extraction layer: one call of TreeSitterAnalyzer.analyze.
VARIABLES
    file,            \* file_path
    tree,            \* the syntax tree tree-sitter gives for the content
    result           \* the call: pending, or what it returned

persisted == <<records, chunks, chunk_file_map, symbols, relationships>>
engineVars == <<records, chunks, chunk_file_map, symbols, relationships, op, faults>>
workerVars ==
    <<history, gitignore, running, tasks, last_commit, covered>>
extractVars == <<file, tree, result>>
vars == <<engineVars, workerVars, extractVars>>

\* ------------------------------------------------------------ pure helpers
\* hashlib.sha256(content).hexdigest(): one digest per content, never "".
Hash(c) == <<"sha256", c>>
EmptyHash == <<>>

\* len(content) of the contents of the model.
Size(c) == c * 60000

\* CodeChunker.chunk_file: the empty file gives no chunk, content c gives c chunks.
ChunkFile(p, c) == [i \in 1..c |-> [file_path |-> p, content |-> c, idx |-> i]]

\* TreeSitterAnalyzer.analyze on a file it can analyze: the rows are tagged
\* with the content they were extracted from; content 1 calls g twice, so
\* its relationships are a multiset.
AnalyzeSymbols(p, c) ==
    IF c = 0 THEN <<>>
    ELSE <<[file_path |-> p, symbol_name |-> "f", src |-> c]>>

AnalyzeRelationships(p, c) ==
    IF c = 0 THEN <<>>
    ELSE [i \in 1..2 |-> [source_file |-> p, source_symbol |-> "f",
                          target_symbol |-> "g", src |-> c]]

RECURSIVE AddAll(_, _)
AddAll(bag, rows) ==
    IF rows = <<>> THEN bag
    ELSE AddAll(bag (+) SetToBag({Head(rows)}), Tail(rows))

Restrict(f, S) == [x \in S |-> f[x]]

MaxOf(S) == IF S = {} THEN 0 ELSE CHOOSE x \in S : \A y \in S : y <= x

\* IndexedFile(file_path=file_path, file_hash=""): the column defaults.
NewRecord ==
    [file_hash |-> EmptyHash, status |-> "queued", chunk_count |-> 0,
     error_message |-> "None"]

IdleOp ==
    [kind |-> "none", path |-> "a.py", pc |-> "idle", result |-> "none",
     outcome |-> "none", content |-> NoFile, rec |-> NewRecord,
     attached |-> FALSE, ids |-> {}, ast |-> "none",
     fault |-> "none", afterIndex |-> FALSE, absent |-> FALSE,
     replaced |-> FALSE]

Quiescent == op.pc \in {"idle", "done"}

\* A step in which the environment makes something fail, and one in which not.
Fault == faults < MaxFaults /\ faults' = faults + 1
NoFault == UNCHANGED faults

\* What is left of the operation once the call has returned: the session is closed.
Returned(o) ==
    [o EXCEPT !.pc = "done", !.rec = NewRecord, !.attached = FALSE, !.ids = {}]

\* ------------------------------------------------------------ vector store
TrackedRowids(p) == {r \in DOMAIN chunk_file_map : chunk_file_map[r] = p}

\* A variant whose DELETE statements have no WHERE clause.
DeleteByFile_AllRows(p) ==
    /\ chunks' = Restrict(chunks, {})
    /\ chunk_file_map' = Restrict(chunk_file_map, {})

\* SQLiteVectorStore.delete_by_file: the rows of the vector table whose
\* rowid chunk_file_map gives to the path, and those map rows, in one commit.
DeleteByFile(p) ==
    /\ chunks' = Restrict(chunks, DOMAIN chunks \ TrackedRowids(p))
    /\ chunk_file_map' = Restrict(chunk_file_map, DOMAIN chunk_file_map \ TrackedRowids(p))

\* self._store.add_texts: inserts the rows after max(rowid) and commits;
\* returns the rowids above the old maximum.
AddTexts(cs) ==
    LET max_id == MaxOf(DOMAIN chunks)
    IN  chunks' = [r \in DOMAIN chunks \cup (max_id + 1)..(max_id + Len(cs)) |->
                      IF r \in DOMAIN chunks THEN chunks[r] ELSE cs[r - max_id]]

NewRowids == DOMAIN chunks' \ DOMAIN chunks

\* The rows of the vector table that hold a chunk of the path.
ChunkRowsOf(p) == {r \in DOMAIN chunks : chunks[r].file_path = p}

\* INSERT OR REPLACE INTO chunk_file_map for every id, then commit.
TrackIds(ids, p) ==
    chunk_file_map' = [r \in DOMAIN chunk_file_map \cup ids |->
                          IF r \in ids THEN p ELSE chunk_file_map[r]]

\* ---------------------------------------------------------- index_file
\* except Exception as e: record.status = FAILED; record.error_message = str(e);
\* return False.  The with block then commits on exit.
Handler(o, err) ==
    [o EXCEPT !.rec = [o.rec EXCEPT !.status = "failed", !.error_message = err],
              !.fault = err, !.result = "false", !.outcome = "failed",
              !.pc = "exit"]

\* A variant without the exists() check: read_text raises, the handler marks
\* the record failed and the exit commit writes it.
IndexFileNotFound_NoCheck(p, c) ==
    /\ c = NoFile
    /\ records' = [q \in DOMAIN records \cup {p} |->
                      IF q = p
                      THEN [(IF p \in DOMAIN records THEN records[p] ELSE NewRecord)
                               EXCEPT !.status = "failed", !.error_message = "read_text"]
                      ELSE records[q]]
    /\ op' = Returned([IdleOp EXCEPT !.kind = "index", !.path = p,
                                     !.result = "false", !.outcome = "not_found"])
    /\ NoFault
    /\ UNCHANGED <<chunks, chunk_file_map, symbols, relationships>>

\* if not full_path.exists(): return False
IndexFileNotFound(p, c) ==
    /\ c = NoFile
    /\ op' = Returned([IdleOp EXCEPT !.kind = "index", !.path = p,
                                     !.result = "false", !.outcome = "not_found"])
    /\ NoFault
    /\ UNCHANGED persisted

\* if record.file_hash == content_hash and record.status == IndexStatus.COMPLETED
\* A variant that never takes the short cut.
Unchanged_Never(record, c) == FALSE

\* A variant that takes the short cut on the fingerprint alone.
Unchanged_HashOnly(record, c) == record.file_hash = Hash(c)

Unchanged(record, c) == record.file_hash = Hash(c) /\ record.status = "completed"

\* Get or create the record, read and hash the content, skip if unchanged,
\* else persist in_progress.
IndexFileBegin(p, c) ==
    /\ c # NoFile
    /\ LET found == p \in DOMAIN records
           record == IF found THEN records[p] ELSE NewRecord
           o == [IdleOp EXCEPT !.kind = "index", !.path = p, !.rec = record,
                               !.content = c, !.attached = TRUE]
       IN  \/ \* read_text raises
              /\ Fault
              /\ op' = Handler(o, "read_text")
              /\ UNCHANGED persisted
           \/ \* unchanged: return True, nothing to flush
              /\ Unchanged(record, c)
              /\ NoFault
              /\ op' = Returned([o EXCEPT !.result = "true", !.outcome = "unchanged"])
              /\ UNCHANGED persisted
           \/ \* record.status = IN_PROGRESS; session.commit()
              /\ ~Unchanged(record, c)
              /\ LET o2 == [o EXCEPT !.rec.status = "in_progress"]
                 IN  \/ /\ NoFault
                        /\ records' = [q \in DOMAIN records \cup {p} |->
                                          IF q = p THEN o2.rec ELSE records[q]]
                        /\ op' = [o2 EXCEPT !.pc = "delete_old"]
                        /\ UNCHANGED <<chunks, chunk_file_map, symbols, relationships>>
                     \/ \* the commit raises: the transaction is rolled back,
                        \* a pending record leaves the session
                        /\ Fault
                        /\ op' = [Handler(o2, "commit") EXCEPT !.attached = found]
                        /\ UNCHANGED persisted

\* index_file(file_path), called while the file at the path holds c.
IndexFileStart(p, c) ==
    /\ Quiescent
    /\ (IndexFileNotFound(p, c) \/ IndexFileBegin(p, c))

\* record.file_hash = content_hash; record.status = COMPLETED;
\* record.chunk_count = len(chunks); record.error_message = None
UpdateRecord(o, n) ==
    [o EXCEPT !.rec = [file_hash |-> Hash(o.content), status |-> "completed",
                       chunk_count |-> n, error_message |-> "None"],
              !.pc = "ast"]

\* deleted_count = self._vectorstore.delete_by_file(file_path)
IndexFileDeleteOld ==
    /\ op.kind = "index" /\ op.pc = "delete_old"
    /\ \/ /\ NoFault
          /\ DeleteByFile(op.path)
          /\ op' = [op EXCEPT !.pc = "add_texts"]
          /\ UNCHANGED <<records, symbols, relationships>>
       \/ /\ Fault
          /\ op' = Handler(op, "delete_by_file")
          /\ UNCHANGED persisted

\* chunks = self._chunker.chunk_file(file_path, content), then the first half
\* of add_chunks: nothing to do for no chunks, else add_texts (which commits).
IndexFileAddTexts ==
    /\ op.kind = "index" /\ op.pc = "add_texts"
    /\ LET cs == ChunkFile(op.path, op.content)
       IN  \/ /\ Fault
              /\ op' = Handler(op, "chunk_file")
              /\ UNCHANGED persisted
           \/ /\ cs = <<>>
              /\ NoFault
              /\ op' = UpdateRecord(op, 0)
              /\ UNCHANGED persisted
           \/ /\ cs # <<>>
              /\ Fault
              /\ op' = Handler(op, "add_texts")
              /\ UNCHANGED persisted
           \/ /\ cs # <<>>
              /\ MaxOf(DOMAIN chunks) + Len(cs) <= MaxRowid
              /\ NoFault
              /\ AddTexts(cs)
              /\ op' = [op EXCEPT !.ids = NewRowids, !.pc = "track"]
              /\ UNCHANGED <<records, chunk_file_map, symbols, relationships>>

\* A variant that commits the session as soon as the record is updated.
IndexFileTrack_Flushes ==
    /\ op.kind = "index" /\ op.pc = "track"
    /\ NoFault
    /\ TrackIds(op.ids, op.path)
    /\ op' = UpdateRecord(op, Len(ChunkFile(op.path, op.content)))
    /\ records' = [records EXCEPT ![op.path] = op'.rec]
    /\ UNCHANGED <<chunks, symbols, relationships>>

\* The second half of add_chunks: the file -> rowid mappings and their commit.
IndexFileTrack ==
    /\ op.kind = "index" /\ op.pc = "track"
    /\ \/ /\ NoFault
          /\ TrackIds(op.ids, op.path)
          /\ op' = UpdateRecord(op, Len(ChunkFile(op.path, op.content)))
          /\ UNCHANGED <<records, chunks, symbols, relationships>>
       \/ /\ Fault
          /\ op' = Handler(op, "chunk_file_map")
          /\ UNCHANGED persisted

\* A variant that commits after the symbols are added, and loses the
\* relationships.
StoreAstData_SymbolsOnly(p, syms, rels) ==
    /\ symbols' = AddAll(Restrict(symbols, {r \in DOMAIN symbols : r.file_path # p}), syms)
    /\ relationships' =
          Restrict(relationships, {r \in DOMAIN relationships : r.source_file # p})

\* A variant that adds the new rows without deleting the old ones.
StoreAstData_NoDelete(p, syms, rels) ==
    /\ symbols' = AddAll(symbols, syms)
    /\ relationships' = AddAll(relationships, rels)

\* IndexManager._store_ast_data: one session; delete the rows of the path,
\* add the rows of the result, commit on exit.
StoreAstData(p, syms, rels) ==
    /\ symbols' = AddAll(Restrict(symbols, {r \in DOMAIN symbols : r.file_path # p}), syms)
    /\ relationships' =
          AddAll(Restrict(relationships,
                          {r \in DOMAIN relationships : r.source_file # p}), rels)

\* The analyzer returns an error result, the analyzer raises, _store_ast_data raises.
AstFailures == {"error", "raised", "store_raised"}

HasAstRows(p) ==
    \/ \E r \in DOMAIN symbols : r.file_path = p
    \/ \E r \in DOMAIN relationships : r.source_file = p

\* A variant in which a failure of the AST step reaches the handler of index_file.
SwallowAst_Propagates(o, a) ==
    [Handler(o, a) EXCEPT !.ast = a, !.fault = "none"]

\* if not result.error: ...; except Exception as e: logger.warning(...).
\* The step is over, index_file goes on to return True.
SwallowAst(o, a) ==
    [o EXCEPT !.ast = a, !.pc = "exit", !.result = "true", !.outcome = "indexed"]

\* The AST step of index_file: skipped when disabled or the file is too
\* large; an error result is not stored; an exception of the analyzer or of
\* _store_ast_data is logged and swallowed.
IndexFileAst ==
    /\ op.kind = "index" /\ op.pc = "ast"
    /\ NoFault
    /\ LET done(a) == SwallowAst(op, a)
       IN  IF EnableAst /\ Size(op.content) <= AstMaxFileSize
           THEN \/ /\ StoreAstData(op.path, AnalyzeSymbols(op.path, op.content),
                                   AnalyzeRelationships(op.path, op.content))
                   /\ op' = [done("ok") EXCEPT !.replaced = HasAstRows(op.path)]
                   /\ UNCHANGED <<records, chunks, chunk_file_map>>
                \/ /\ \E a \in AstFailures : op' = done(a)
                   /\ UNCHANGED persisted
           ELSE /\ op' = done("skipped")
                /\ UNCHANGED persisted

\* DatabaseManager.session on leaving the with block: commit; if the commit
\* raises, roll back and raise.
IndexFileExit ==
    /\ op.kind = "index" /\ op.pc = "exit"
    /\ \/ /\ NoFault
          /\ records' = IF op.attached
                        THEN [q \in DOMAIN records \cup {op.path} |->
                                 IF q = op.path THEN op.rec ELSE records[q]]
                        ELSE records
          /\ op' = Returned(op)
          /\ UNCHANGED <<chunks, chunk_file_map, symbols, relationships>>
       \/ /\ op.attached
          /\ \/ Fault
             \/ \* the database that refused the commit of in_progress still refuses
                /\ op.fault = "commit"
                /\ NoFault
          /\ op' = Returned([op EXCEPT !.result = "raised", !.outcome = "raised",
                                       !.fault = IF op.fault = "none"
                                                 THEN "exit_commit" ELSE op.fault])
          /\ UNCHANGED persisted

\* ---------------------------------------------------------- delete_file
\* with self._db.session(): deleted_count = self._vectorstore.delete_by_file(...)
DeleteFileStart(p) ==
    /\ Quiescent
    /\ LET o == [IdleOp EXCEPT !.kind = "delete", !.path = p,
                    !.afterIndex = (op.kind = "index" /\ op.pc = "done"
                                    /\ op.path = p /\ op.result = "true"),
                    !.absent = (p \notin DOMAIN records /\ ChunkRowsOf(p) = {})]
       IN  \/ /\ NoFault
              /\ DeleteByFile(p)
              /\ op' = [o EXCEPT !.pc = "del_record"]
              /\ UNCHANGED <<records, symbols, relationships>>
           \/ /\ Fault
              /\ op' = Returned([o EXCEPT !.result = "raised", !.outcome = "raised",
                                          !.fault = "delete_by_file"])
              /\ UNCHANGED persisted

\* A variant without the "if record:" guard: session.delete(None) raises.
DeleteFileRecord_NoGuard ==
    /\ op.kind = "delete" /\ op.pc = "del_record"
    /\ NoFault
    /\ IF op.path \in DOMAIN records
       THEN /\ records' = Restrict(records, DOMAIN records \ {op.path})
            /\ op' = Returned([op EXCEPT !.result = "true", !.outcome = "deleted"])
       ELSE /\ records' = records
            /\ op' = Returned([op EXCEPT !.result = "raised", !.outcome = "raised"])
    /\ UNCHANGED <<chunks, chunk_file_map, symbols, relationships>>

\* record = query.first(); if record: session.delete(record); commit on exit;
\* return True
DeleteFileRecord ==
    /\ op.kind = "delete" /\ op.pc = "del_record"
    /\ \/ /\ NoFault
          /\ records' = Restrict(records, DOMAIN records \ {op.path})
          /\ op' = Returned([op EXCEPT !.result = "true", !.outcome = "deleted"])
          /\ UNCHANGED <<chunks, chunk_file_map, symbols, relationships>>
       \/ /\ op.path \in DOMAIN records
          /\ Fault
          /\ op' = Returned([op EXCEPT !.result = "raised", !.outcome = "raised",
                                       !.fault = "exit_commit"])
          /\ UNCHANGED persisted

\* ---------------------------------------------------------- is_file_indexed
IsFileIndexed(p) ==
    IF p \notin DOMAIN records
    THEN [indexed |-> FALSE, status |-> "not_found"]
    ELSE [indexed |-> records[p].status = "completed", status |-> records[p].status,
          chunk_count |-> records[p].chunk_count, error |-> records[p].error_message]

\* ---------------------------------------------------------- environment
\* The process dies in the middle of an operation: the session is lost,
\* what was committed stays.
Crash ==
    /\ ~Quiescent
    /\ Fault
    /\ op' = IdleOp
    /\ UNCHANGED persisted

Init ==
    /\ records = [q \in {} |-> NewRecord]
    /\ chunks = [r \in {} |-> 0]
    /\ chunk_file_map = [r \in {} |-> ""]
    /\ symbols = EmptyBag
    /\ relationships = EmptyBag
    /\ op = IdleOp
    /\ faults = 0

\* The engine on its own: the scheduler and the extraction layer stand still.
EngineOnly == UNCHANGED <<workerVars, extractVars>>

Next ==
    \/ \E p \in Paths : \E c \in OnDisk(p) : IndexFileStart(p, c) /\ EngineOnly
    \/ IndexFileDeleteOld /\ EngineOnly
    \/ IndexFileAddTexts /\ EngineOnly
    \/ IndexFileTrack /\ EngineOnly
    \/ IndexFileAst /\ EngineOnly
    \/ IndexFileExit /\ EngineOnly
    \/ \E p \in Paths : DeleteFileStart(p) /\ EngineOnly
    \/ DeleteFileRecord /\ EngineOnly
    \/ Crash /\ EngineOnly

\* The shape of the state: the columns of IndexedFile, the rows of the vector
\* table and of chunk_file_map, the rows of Symbol and CodeRelationship.
Statuses == {"queued", "in_progress", "completed", "failed"}

TypeOK ==
    /\ DOMAIN records \subseteq Paths
    /\ \A p \in DOMAIN records :
          /\ records[p].status \in Statuses
          /\ records[p].file_hash \in {EmptyHash} \cup {Hash(c) : c \in Contents}
          /\ records[p].chunk_count \in 0..MaxContent
    /\ DOMAIN chunks \subseteq 1..MaxRowid
    /\ \A r \in DOMAIN chunks :
          chunks[r].file_path \in Paths /\ chunks[r].content \in Contents
    /\ DOMAIN chunk_file_map \subseteq DOMAIN chunks
    /\ \A r \in DOMAIN chunk_file_map : chunk_file_map[r] \in Paths
    /\ \A r \in DOMAIN symbols : r.file_path \in Paths
    /\ \A r \in DOMAIN relationships : r.source_file \in Paths
    /\ op.kind \in {"none", "index", "delete"}
    /\ op.path \in Paths
    /\ faults \in 0..MaxFaults

\* ======================================================================
\* Properties of the indexing engine
\* ======================================================================
BagOfSeq(rows) == AddAll(EmptyBag, rows)
SymbolsOf(p) == Restrict(symbols, {r \in DOMAIN symbols : r.file_path = p})
RelationshipsOf(p) ==
    Restrict(relationships, {r \in DOMAIN relationships : r.source_file = p})

IndexReturned == op.kind = "index" /\ op.pc = "done"
DeleteReturned == op.kind = "delete" /\ op.pc = "done"

\* C1: index_file on a path whose record is completed with the hash of the
\* file's current content returns True and changes no table (no chunk is
\* deleted or added, no symbol or relationship is written, the record keeps
\* its fingerprint, status and chunk count); and a successful index_file
\* leaves the record completed with the hash of the content it read, so a
\* second call on the unchanged file is such a call.
C1_UnchangedIsNoOp ==
    /\ [](IndexReturned /\ op.result = "true" =>
            /\ op.path \in DOMAIN records
            /\ records[op.path].status = "completed"
            /\ records[op.path].file_hash = Hash(op.content)
            /\ records[op.path].chunk_count = Len(ChunkFile(op.path, op.content)))
    /\ [][\A p \in Paths : \A c \in Contents :
            (/\ faults' = faults
             /\ p \in DOMAIN records
             /\ records[p].status = "completed"
             /\ records[p].file_hash = Hash(c)
             /\ IndexFileStart(p, c))
            => (op'.pc = "done" /\ op'.result = "true" /\ UNCHANGED persisted)]_vars

\* C1 witness: a completed file was indexed again with the same content.
C1_Witness ==
    /\ IndexReturned /\ op.outcome = "unchanged" /\ op.result = "true"
    /\ ChunkRowsOf(op.path) # {}

\* C2: whenever a record is completed, every stored symbol and relationship
\* of its path was extracted from the content whose hash is the record's
\* fingerprint.
C2_CompletedNeverStale ==
    \A p \in DOMAIN records :
        records[p].status = "completed" =>
            /\ \A r \in DOMAIN symbols :
                  r.file_path = p => Hash(r.src) = records[p].file_hash
            /\ \A r \in DOMAIN relationships :
                  r.source_file = p => Hash(r.src) = records[p].file_hash

\* C3: once delete_file(p) has returned after a successful index_file(p),
\* the path has no chunk, no symbol, no relationship and no record, and
\* is_file_indexed(p) answers indexed = false, status = not_found.
C3_DeleteRemovesEverything ==
    (DeleteReturned /\ op.afterIndex /\ op.result = "true") =>
        /\ ChunkRowsOf(op.path) = {}
        /\ SymbolsOf(op.path) = EmptyBag
        /\ RelationshipsOf(op.path) = EmptyBag
        /\ op.path \notin DOMAIN records
        /\ IsFileIndexed(op.path) = [indexed |-> FALSE, status |-> "not_found"]

\* C4: every step of delete_file on a path that has no record and no tracked
\* chunk leaves all tables as they are, and the call returns True unless
\* the store fails; after delete_file has returned True the path has no
\* record and no tracked chunk, so a second delete_file is such a call.
C4_DeleteIdempotent ==
    /\ [](DeleteReturned /\ op.result = "true" =>
            op.path \notin DOMAIN records /\ TrackedRowids(op.path) = {})
    /\ [][\A p \in Paths :
            (/\ p \notin DOMAIN records
             /\ TrackedRowids(p) = {}
             /\ \/ DeleteFileStart(p)
                \/ (op.kind = "delete" /\ op.path = p /\ DeleteFileRecord))
            => /\ UNCHANGED persisted
               /\ (faults' = faults /\ op'.pc = "done") => op'.result = "true"]_vars

\* C4 witness: delete_file has returned True on a path that had no record
\* and no chunk.
C4_Witness == DeleteReturned /\ op.absent /\ op.result = "true"
\* C5: when a step of index_file raises after the record was fetched or
\* created, index_file returns False and the persisted record of the path
\* is failed with the text of the error.
C5_FailureIsPersisted ==
    (IndexReturned /\ op.fault # "none") =>
        /\ op.result = "false"
        /\ op.path \in DOMAIN records
        /\ records[op.path].status = "failed"
        /\ records[op.path].error_message = op.fault

\* C6: index_file on a path that is not on disk returns False and leaves
\* every table as it is: no record is created, an existing record is kept.
C6_NotFoundChangesNothing ==
    [][\A p \in Paths :
          (Quiescent /\ IndexFileStart(p, NoFile))
          => (op'.pc = "done" /\ op'.result = "false" /\ UNCHANGED persisted)]_vars

\* C6 witness: index_file has returned for a missing file whose record exists.
C6_Witness ==
    /\ IndexReturned /\ op.outcome = "not_found" /\ op.result = "false"
    /\ op.path \in DOMAIN records

\* C7: when the AST step fails (error result, exception of the analyzer,
\* exception of _store_ast_data) and no other step does, index_file returns
\* True and the record is completed with the new fingerprint and chunk count.
C7_AstFailureDoesNotFailFile ==
    (IndexReturned /\ op.ast \in AstFailures /\ op.fault = "none") =>
        /\ op.result = "true"
        /\ op.path \in DOMAIN records
        /\ records[op.path].status = "completed"
        /\ records[op.path].file_hash = Hash(op.content)
        /\ records[op.path].chunk_count = Len(ChunkFile(op.path, op.content))

\* C7 witness: index_file has returned True after _store_ast_data raised, on
\* a file that was indexed before with another content.
C7_Witness ==
    /\ IndexReturned /\ op.ast = "store_raised" /\ op.result = "true"
    /\ \E r \in DOMAIN symbols : r.file_path = op.path /\ r.src # op.content

\* C8: an error of the AST step of index_file is recorded in the record of
\* the file: the record is failed or carries an error message.
C8_AstErrorIsRecorded ==
    (IndexReturned /\ op.ast \in AstFailures /\ op.result # "raised") =>
        /\ op.path \in DOMAIN records
        /\ \/ records[op.path].status = "failed"
           \/ records[op.path].error_message # "None"

\* C9: after the AST step of index_file has stored a result, the symbols and
\* the relationships stored for the path are exactly the multisets of that
\* extraction.
C9_AstRowsAreLatestExtraction ==
    (op.kind = "index" /\ op.ast = "ok" /\ op.pc \in {"exit", "done"}) =>
        /\ SymbolsOf(op.path) = BagOfSeq(AnalyzeSymbols(op.path, op.content))
        /\ RelationshipsOf(op.path) =
              BagOfSeq(AnalyzeRelationships(op.path, op.content))

\* C9 witness: a result with a repeated relationship was stored over rows of
\* an earlier index of the path.
C9_Witness ==
    /\ IndexReturned /\ op.ast = "ok" /\ op.replaced
    /\ \E r \in DOMAIN relationships :
          r.source_file = op.path /\ relationships[r] = 2

\* C10: when no operation is running, the chunks the vector store holds for
\* a path all come from one content and each of them is tracked in
\* chunk_file_map under that path, so that delete_by_file removes it.
C10_OnlyLatestChunks ==
    Quiescent =>
        \A r1 \in DOMAIN chunks :
            /\ r1 \in DOMAIN chunk_file_map
            /\ chunk_file_map[r1] = chunks[r1].file_path
            /\ \A r2 \in DOMAIN chunks :
                  chunks[r1].file_path = chunks[r2].file_path
                  => chunks[r1].content = chunks[r2].content

\* The status of the record of a path; a path without record has the status
\* a new record is created with.
StatusOf(recs, p) == IF p \in DOMAIN recs THEN recs[p].status ELSE "queued"

AllowedTransitions ==
    {<<"queued", "in_progress">>, <<"in_progress", "completed">>,
     <<"in_progress", "failed">>, <<"completed", "in_progress">>,
     <<"failed", "in_progress">>}

\* C21: the persisted status of a record changes only from queued to
\* in_progress, from in_progress to completed or failed, and from completed
\* or failed to in_progress, whichever step of index_file raises.  (Stated
\* for the records that are persisted before and after the step.)
C21_StatusTransitions ==
    [][\A p \in Paths :
          (/\ p \in DOMAIN records /\ p \in DOMAIN records'
           /\ StatusOf(records', p) # StatusOf(records, p))
          => <<StatusOf(records, p), StatusOf(records', p)>> \in AllowedTransitions]_vars

\* The chunks, the tracked rowids, the symbols and the relationships of a path.
DerivedOf(p) ==
    <<Restrict(chunks, ChunkRowsOf(p)), TrackedRowids(p), SymbolsOf(p),
      RelationshipsOf(p)>>

\* C22: in an index_file that does work, in_progress is persisted before
\* any derived data of the path is deleted or written, completed is
\* persisted only after the chunks are committed and the AST step is over,
\* and wherever the process can crash in between the persisted record is
\* in_progress.
C22_InProgressBracketsTheWork ==
    /\ []((/\ op.kind = "index"
           /\ op.pc \in {"delete_old", "add_texts", "track", "ast", "exit"}
           /\ op.fault \notin {"read_text", "commit"})
          => (op.path \in DOMAIN records /\ records[op.path].status = "in_progress"))
    /\ [][\A p \in Paths :
            (op.kind = "index" /\ ~Quiescent /\ DerivedOf(p)' # DerivedOf(p))
            => /\ StatusOf(records, p) = "in_progress"
               /\ StatusOf(records', p) = "in_progress"]_vars
    /\ [][\A p \in Paths :
            (StatusOf(records', p) = "completed" /\ StatusOf(records, p) # "completed")
            => /\ op.kind = "index" /\ op.pc = "exit" /\ op.path = p
               /\ op.ast # "none"
               /\ UNCHANGED <<chunks, chunk_file_map, symbols, relationships>>]_vars

\* C22 witness: the chunks and the AST rows of the new content are committed
\* and the record is still in_progress.
C22_Witness ==
    /\ op.kind = "index" /\ op.pc = "exit" /\ op.ast = "ok"
    /\ records[op.path].status = "in_progress"
    /\ \E r \in ChunkRowsOf(op.path) : chunks[r].content = op.content
    /\ SymbolsOf(op.path) # EmptyBag

\* C25: index_file(p) and delete_file(p) leave the record, the chunks, the
\* symbols and the relationships of every other path as they are, in every
\* step, whether the operation succeeds or fails.
C25_OtherPathsUntouched ==
    [][\A q \in Paths :
          (op'.kind \in {"index", "delete"} /\ q # op'.path)
          => /\ (q \in DOMAIN records') = (q \in DOMAIN records)
             /\ q \in DOMAIN records => records'[q] = records[q]
             /\ DerivedOf(q)' = DerivedOf(q)]_vars

\* C25 witness: an index_file has returned while another path has a record,
\* chunks and symbols.
C25_Witness ==
    /\ IndexReturned /\ op.result = "true" /\ op.ast = "ok"
    /\ \E q \in Paths \ {op.path} :
          /\ q \in DOMAIN records /\ records[q].status = "completed"
          /\ ChunkRowsOf(q) # {}
          /\ SymbolsOf(q) # EmptyBag

\* C26: the symbols and relationships of a path are replaced atomically:
\* every step that changes them leaves exactly the complete set of the new
\* extraction, and a failure of the store leaves the old set.
C26_AstReplacementIsAtomic ==
    [][\A p \in Paths :
          LET changed == \/ SymbolsOf(p)' # SymbolsOf(p)
                         \/ RelationshipsOf(p)' # RelationshipsOf(p)
          IN  /\ changed =>
                    /\ op.kind = "index" /\ op.pc = "ast" /\ op.path = p
                    /\ op'.ast = "ok"
                    /\ SymbolsOf(p)' = BagOfSeq(AnalyzeSymbols(p, op.content))
                    /\ RelationshipsOf(p)' =
                          BagOfSeq(AnalyzeRelationships(p, op.content))
              /\ (op.kind = "index" /\ op.pc = "ast" /\ op.path = p
                  /\ op'.ast \in AstFailures) => ~changed]_vars

\* C26 witness: the rows of an earlier index of the path were replaced by
\* the rows of a new extraction, after the path was indexed with another
\* content in between.
C26_Witness ==
    /\ op.kind = "index" /\ op.pc = "exit" /\ op.ast = "ok" /\ op.replaced
    /\ records[op.path].file_hash \notin {EmptyHash, Hash(op.content)}
    /\ SymbolsOf(op.path) = BagOfSeq(AnalyzeSymbols(op.path, op.content))
    /\ SymbolsOf(op.path) # EmptyBag

\* C29: when no operation is in flight, a completed record's chunk_count is
\* the number of chunks the vector store holds for the path, and those
\* chunks come from the content whose hash is the record's fingerprint.
C29_ChunkCountMatchesStore ==
    Quiescent =>
        \A p \in DOMAIN records :
            records[p].status = "completed" =>
                /\ records[p].chunk_count = Cardinality(ChunkRowsOf(p))
                /\ \A r \in ChunkRowsOf(p) :
                      Hash(chunks[r].content) = records[p].file_hash

\* ======================================================================
\* The scheduler: IndexWorker over a repository that is committed to
\* ======================================================================
MaxCommits == 2      \* commits made to the repository in one behaviour
MaxTasks == 2        \* tasks start() creates in one behaviour

\* The files of the repository, in the order git diff and the scan list them.
RepoPaths == <<".github/w.py", "X.bin", "a.py", "b.PY">>
RepoPathSet == {RepoPaths[i] : i \in DOMAIN RepoPaths}

\* The files that are committed to while the worker runs; the others stay
\* as they were at construction.
Edited == {"a.py", "b.PY"}

\* The text of a path, character by character.
Text(p) ==
    CASE p = ".github/w.py" -> <<".", "g", "i", "t", "h", "u", "b", "/", "w", ".", "p", "y">>
      [] p = "X.bin" -> <<"X", ".", "b", "i", "n">>
      [] p = "a.py" -> <<"a", ".", "p", "y">>
      [] p = "b.PY" -> <<"b", ".", "P", "Y">>

\* str.lower() on the characters of the model.
LowerChar(ch) ==
    CASE ch = "P" -> "p" [] ch = "Y" -> "y" [] ch = "X" -> "x" [] OTHER -> ch

Lower(text) == [i \in DOMAIN text |-> LowerChar(text[i])]

\* PurePath.suffix: the text from the last dot of the final component, when
\* that dot is neither its first nor its last character.
Suffix(text) ==
    LET slashes == {i \in DOMAIN text : text[i] = "/"}
        start == MaxOf(slashes) + 1
        dots == {i \in start..Len(text) : text[i] = "."}
        dot == MaxOf(dots)
    IN  IF dots = {} \/ dot = start \/ dot = Len(text) THEN <<>>
        ELSE SubSeq(text, dot, Len(text))

\* pattern in file_path
Occurs(pattern, text) ==
    \E i \in 1..(Len(text) - Len(pattern) + 1) :
        SubSeq(text, i, i + Len(pattern) - 1) = pattern

\* self._indexable_extensions: EXTENSION_TO_LANGUAGE and settings.file_extensions
\* (the entries the paths of the model can meet).
IndexableExtensions == {<<".", "p", "y">>, <<".", "j", "s">>, <<".", "m", "d">>}

\* settings.ignore_patterns (the entry the paths of the model can meet).
IgnorePatterns == {<<".", "g", "i", "t">>}

\* What .gitignore can hold: no rule, or a rule that matches a.py.  A rule
\* set is modelled by the paths GitIgnoreSpec.match_file answers True for.
GitignoreRules == {{}, {"a.py"}}

\* GitignoreFilter.is_ignored
IsIgnored(rules, p) == p \in rules

\* A variant that forgets the configured ignore patterns.
ShouldIndex_NoPatterns(rules, p) ==
    /\ Lower(Suffix(Text(p))) \in IndexableExtensions
    /\ ~IsIgnored(rules, p)

\* IndexWorker._should_index
ShouldIndex(rules, p) ==
    /\ Lower(Suffix(Text(p))) \in IndexableExtensions
    /\ ~IsIgnored(rules, p)
    /\ \A pattern \in IgnorePatterns : ~Occurs(pattern, Text(p))

\* ---------------------------------------------------------- the repository
\* The content of a path in the tree of commit h: 0 is the content at
\* construction, k the content written by commit k, NoFile a deleted file.
Version(p, h) ==
    LET ks == {k \in 1..h : history[k].path = p}
    IN  IF ks = {} THEN 0
        ELSE IF history[MaxOf(ks)].kind = "delete" THEN NoFile ELSE MaxOf(ks)

HeadCommit == Len(history)

\* The change events of the paths that have one, in listing order; event is
\* a function from paths to a status or "none".
RECURSIVE SelectEvents(_, _)
SelectEvents(i, event) ==
    IF i > Len(RepoPaths) THEN <<>>
    ELSE (IF event[RepoPaths[i]] = "none" THEN <<>>
          ELSE <<[path |-> RepoPaths[i], status |-> event[RepoPaths[i]]]>>)
         \o SelectEvents(i + 1, event)

\* A variant of the scan that reports the files that are gone as deleted.
GetAllFiles_WithDeleted(h) ==
    SelectEvents(1, [p \in RepoPathSet |->
                        IF Version(p, h) = NoFile THEN "deleted" ELSE "added"])

\* get_all_files: every file of the tree, tagged added.
GetAllFiles(h) ==
    SelectEvents(1, [p \in RepoPathSet |->
                        IF Version(p, h) = NoFile THEN "none" ELSE "added"])

\* A variant of the diff that lists every file of the tree as modified.
GitDiff_EveryFile(since, h) ==
    SelectEvents(1, [p \in RepoPathSet |->
                        IF Version(p, h) = NoFile THEN "none" ELSE "modified"])

\* git diff --name-status since HEAD: one line for every path whose content
\* differs between the two trees, A, M or D.
GitDiff(since, h) ==
    SelectEvents(1, [p \in RepoPathSet |->
        LET a == Version(p, since)
            b == Version(p, h)
        IN  IF a = b THEN "none"
            ELSE IF a = NoFile THEN "added"
            ELSE IF b = NoFile THEN "deleted"
            ELSE "modified"])

\* self._last_commit = None
NoCommit == -1

\* get_git_delta(project_root, since_commit): the scan when there is no
\* checkpoint or when git diff fails, else the diff.
GetGitDelta(since, git_ok) ==
    IF since = NoCommit \/ ~git_ok THEN GetAllFiles(HeadCommit) ELSE GitDiff(since, HeadCommit)

\* ---------------------------------------------------------- the loop task
\* One task of _index_loop.  pc is the await the task is suspended at:
\* "created" (not yet run), "await" (a to_thread call is in flight), "sleep";
\* "cancelling" when cancel() was called on it and CancelledError is still to
\* be thrown into it; or how it ended: "cancelled", "dead" (an exception left
\* the coroutine), "finished".  The other fields are the locals of the
\* running cycle, and what the cycle has done (did, file_error, writes, cycle).
\* call and path are the to_thread call in flight; a file operation goes on
\* in its thread when the task is cancelled, and answer is then what it ended
\* with.  diff tells a cycle over git diff from one over the scan, and
\* failed_paths are the paths whose last index_file of this task failed.
NewTask ==
    [pc |-> "created", full |-> TRUE, changes |-> <<>>,
     next |-> 1, call |-> "none", indexed |-> 0,
     did |-> <<>>, file_error |-> FALSE, writes |-> 0, attempted |-> FALSE,
     cycle |-> "none", path |-> "none", answer |-> "none", diff |-> FALSE,
     failed_paths |-> {}]

\* What is kept of a task whose cycle is over (the locals of the cycle are
\* gone): how the cycle ended, and where the task is now.
CycleOver(task, how, pc) ==
    [NewTask EXCEPT !.pc = pc, !.full = FALSE,
                    !.file_error = task.file_error, !.writes = task.writes,
                    !.attempted = task.next > Len(task.changes), !.cycle = how,
                    !.failed_paths = task.failed_paths]

\* The index_file or delete_file call the task has handed to a thread and
\* that has not returned yet.
InFlight(task) ==
    /\ task.pc \in {"await", "cancelling", "cancelled"}
    /\ task.call \in {"index_file", "delete_file"}
    /\ task.answer = "none"

\* What is kept of a task that has ended: an exception in the initial cycle
\* leaves it dead, a cancellation cancelled.  Cancelling the task does not
\* reach the thread of its to_thread call: the file operation stays.
Ended(task, how) ==
    IF how = "dead"
    THEN [NewTask EXCEPT !.pc = how, !.file_error = task.file_error,
                         !.writes = task.writes, !.cycle = "raised"]
    ELSE IF task.call \in {"index_file", "delete_file"}
    THEN [NewTask EXCEPT !.pc = how, !.call = task.call, !.path = task.path,
                         !.answer = task.answer]
    ELSE [NewTask EXCEPT !.pc = how]

Live(task) == task.pc \in {"created", "await", "sleep"}

\* self._task, as an index into tasks (0: None).
CurrentTask == Len(tasks)

\* The head of _run_index_cycle: the change events of the cycle.
BeginCycle(task, full, git_ok) ==
    LET since == IF full THEN NoCommit ELSE last_commit
    IN  [task EXCEPT !.full = full, !.changes = GetGitDelta(since, git_ok),
                     !.next = 1, !.call = "none", !.indexed = 0,
                     !.did = <<>>, !.file_error = FALSE, !.writes = 0,
                     !.attempted = FALSE, !.cycle = "running", !.pc = "events",
                     !.path = "none", !.diff = (since # NoCommit /\ git_ok)]

\* The commits whose changes are in the change set of a cycle that begins
\* now: all of them for a scan, those after the checkpoint for a diff.
Range(full, git_ok) ==
    IF full \/ last_commit = NoCommit \/ ~git_ok THEN 1..HeadCommit
    ELSE (last_commit + 1)..HeadCommit

\* for change in changes: up to the next await.  A deletion and an eligible
\* file suspend the task in to_thread; an ineligible file is skipped.  After
\* the last event the batch is summarized if a file was indexed, else the
\* cycle goes on to its checkpoint.
RECURSIVE Dispatch(_, _)
Dispatch(task, rules) ==
    IF task.next > Len(task.changes)
    THEN IF task.indexed > 0 /\ task.call # "summarize"
         THEN [task EXCEPT !.pc = "await", !.call = "summarize", !.path = "none"]
         ELSE [task EXCEPT !.pc = "checkpoint", !.call = "none", !.path = "none"]
    ELSE LET change == task.changes[task.next]
         IN  IF change.status = "deleted"
             THEN [task EXCEPT !.pc = "await", !.call = "delete_file",
                               !.path = change.path,
                               !.did = Append(@, "delete_file")]
             ELSE IF ~ShouldIndex(rules, change.path)
             THEN Dispatch([task EXCEPT !.next = @ + 1,
                                        !.did = Append(@, "skip")], rules)
             ELSE [task EXCEPT !.pc = "await", !.call = "index_file",
                               !.path = change.path,
                               !.did = Append(@, "index_file")]

\* new_commit = get_current_commit(...); self._last_commit = new_commit, and
\* back to "while self._running: await asyncio.sleep(...)".
Checkpoint(t, task, new_commit) ==
    /\ last_commit' = new_commit
    /\ tasks' = [tasks EXCEPT ![t] =
                    CycleOver([task EXCEPT !.writes = @ + 1], "complete",
                              IF running THEN "sleep" ELSE "finished")]

\* The task has run up to its next await, or through the end of the cycle.
Suspend(t, task) ==
    IF task.pc = "checkpoint"
    THEN \E new_commit \in {HeadCommit, NoCommit} : Checkpoint(t, task, new_commit)
    ELSE /\ tasks' = [tasks EXCEPT ![t] = task]
         /\ UNCHANGED last_commit

\* A variant that records the checkpoint when the cycle is left by an exception.
Aborted_Checkpoints(t, task) ==
    /\ last_commit' = HeadCommit
    /\ tasks' = [tasks EXCEPT ![t] =
                    CycleOver([task EXCEPT !.writes = @ + 1], "raised", "sleep")]

\* An exception leaves _run_index_cycle: the initial cycle is outside the
\* try of _index_loop and the exception ends the task; a later cycle is
\* inside it, the exception is logged and the loop goes on.
Aborted(t, task) ==
    /\ UNCHANGED last_commit
    /\ tasks' = [tasks EXCEPT ![t] =
                    IF task.full THEN Ended(task, "dead")
                    ELSE CycleOver(task, "raised",
                                   IF running THEN "sleep" ELSE "finished")]

\* What a to_thread call can give back to the cycle.
CallResults(call) ==
    CASE call = "index_file" -> {"true", "false", "raised"}
      [] call = "delete_file" -> {"true", "raised"}
      [] call = "summarize" -> {"true", "raised"}

\* The task runs for the first time: await self._run_index_cycle(full=True).
TaskRun(t) ==
    /\ tasks[t].pc = "created"
    /\ covered' = covered \cup Range(TRUE, TRUE)
    /\ Suspend(t, Dispatch(BeginCycle(tasks[t], TRUE, TRUE), gitignore))
    /\ UNCHANGED <<history, gitignore, running>>

\* The sleep is over: self._gitignore.reload() loads the rules .gitignore
\* holds by now, then an incremental cycle runs.
TaskWake(t, rules) ==
    /\ tasks[t].pc = "sleep"
    /\ gitignore' = rules
    /\ \E git_ok \in BOOLEAN :
          /\ covered' = covered \cup Range(FALSE, git_ok)
          /\ Suspend(t, Dispatch(BeginCycle(tasks[t], FALSE, git_ok), rules))
    /\ UNCHANGED <<history, running>>

\* The to_thread call of the task is over and the task goes on.
TaskResume(t) ==
    /\ tasks[t].pc = "await"
    /\ \E answer \in CallResults(tasks[t].call) :
          LET task == tasks[t]
              failed == [task EXCEPT
                            !.file_error = @ \/ task.call \in {"index_file", "delete_file"},
                            !.failed_paths = IF task.call = "index_file"
                                             THEN @ \cup {task.path} ELSE @]
          IN  IF answer = "raised"
              THEN Aborted(t, failed)
              ELSE Suspend(t, Dispatch(
                      CASE task.call = "summarize" -> task
                        [] task.call = "delete_file" ->
                              [task EXCEPT !.next = @ + 1,
                                           !.failed_paths = @ \ {task.path}]
                        [] answer = "true" ->
                              [task EXCEPT !.next = @ + 1, !.indexed = @ + 1,
                                           !.failed_paths = @ \ {task.path}]
                        [] OTHER -> [failed EXCEPT !.next = @ + 1],
                      gitignore))
    /\ UNCHANGED <<history, gitignore, running, covered>>

\* CancelledError is thrown into the task at the await it is suspended at.
TaskCancelled(t) ==
    /\ tasks[t].pc = "cancelling"
    /\ tasks' = [tasks EXCEPT ![t] = Ended(tasks[t], "cancelled")]
    /\ UNCHANGED <<history, gitignore, running, last_commit, covered>>

\* The file operation a cancelled task left in its thread runs to its end;
\* nobody awaits what it returns or raises.
ThreadEnd(t) ==
    /\ tasks[t].pc \in {"cancelling", "cancelled"}
    /\ InFlight(tasks[t])
    /\ \E answer \in CallResults(tasks[t].call) :
          tasks' = [tasks EXCEPT ![t] = [@ EXCEPT !.path = "none", !.answer = answer]]
    /\ UNCHANGED <<history, gitignore, running, last_commit, covered>>

\* A variant without "if self._running: return".
Start_NoGuard ==
    /\ Len(tasks) < MaxTasks
    /\ running' = TRUE
    /\ tasks' = Append(tasks, NewTask)
    /\ UNCHANGED <<history, gitignore, last_commit, covered>>

\* IndexWorker.start; a call while running returns at once.
Start ==
    /\ ~running
    /\ Len(tasks) < MaxTasks
    /\ running' = TRUE
    /\ tasks' = Append(tasks, NewTask)
    /\ UNCHANGED <<history, gitignore, last_commit, covered>>

\* IndexWorker.stop, up to its await: self._running = False; self._task.cancel().
\* A task that is to be cancelled runs no further statement of the cycle, so
\* its locals are dropped here.
Stop ==
    /\ running' = FALSE
    /\ tasks' = IF CurrentTask > 0 /\ Live(tasks[CurrentTask])
                THEN [tasks EXCEPT ![CurrentTask] = Ended(@, "cancelling")]
                ELSE tasks
    /\ UNCHANGED <<history, gitignore, last_commit, covered>>

\* ---------------------------------------------------------- environment
\* Somebody commits a change of one file: new content, or its removal.
Commit(p, kind) ==
    /\ HeadCommit < MaxCommits
    /\ kind = "delete" => Version(p, HeadCommit) # NoFile
    /\ history' = Append(history, [path |-> p, kind |-> kind])
    /\ UNCHANGED <<gitignore, running, tasks, last_commit, covered>>

\* After IndexWorker.__init__: the rules are loaded, nothing runs.
WorkerInit ==
    /\ history = <<>>
    /\ gitignore \in GitignoreRules
    /\ running = FALSE
    /\ tasks = <<>>
    /\ last_commit = NoCommit
    /\ covered = {}

WorkerOnly == UNCHANGED <<engineVars, extractVars>>

WorkerNext ==
    \/ \E t \in DOMAIN tasks : TaskRun(t) /\ WorkerOnly
    \/ \E t \in DOMAIN tasks : \E rules \in GitignoreRules :
          TaskWake(t, rules) /\ WorkerOnly
    \/ \E t \in DOMAIN tasks : TaskResume(t) /\ WorkerOnly
    \/ \E t \in DOMAIN tasks : TaskCancelled(t) /\ WorkerOnly
    \/ \E t \in DOMAIN tasks : ThreadEnd(t) /\ WorkerOnly
    \/ Start /\ WorkerOnly
    \/ Stop /\ WorkerOnly
    \/ \E p \in Edited : \E kind \in {"write", "delete"} :
          Commit(p, kind) /\ WorkerOnly

\* ======================================================================
\* The extraction layer: TreeSitterAnalyzer and the extractors
\* ======================================================================
MaxNest == 2         \* how deep functions and classes nest in a syntax tree

\* The files analyze is called on.
SourceFiles == {"m.py", "m.js", "m.ts", "m.go", "m.txt"}

SourceText(f) ==
    CASE f = "m.py" -> <<"m", ".", "p", "y">>
      [] f = "m.js" -> <<"m", ".", "j", "s">>
      [] f = "m.ts" -> <<"m", ".", "t", "s">>
      [] f = "m.go" -> <<"m", ".", "g", "o">>
      [] f = "m.txt" -> <<"m", ".", "t", "x", "t">>

\* EXTENSION_TO_TREE_SITTER.get(ext) (the entries the files of the model meet).
GetLanguageName(f) ==
    LET ext == Lower(Suffix(SourceText(f)))
    IN  CASE ext = <<".", "p", "y">> -> "python"
          [] ext = <<".", "j", "s">> -> "javascript"
          [] ext = <<".", "t", "s">> -> "typescript"
          [] ext = <<".", "g", "o">> -> "go"
          [] OTHER -> "None"

\* EXTRACTORS: the registry of get_extractor.
Extractors ==
    [l \in {"python", "javascript", "typescript", "tsx", "jsx"} |->
        IF l = "python" THEN "PythonExtractor" ELSE "JavaScriptExtractor"]

\* ---------------------------------------------------------- syntax trees
\* A node of a tree-sitter tree: its type, the text of its name field, the
\* type of its value field, its function field (type and dotted parts), its
\* module_name / source field (text, token by token), the typed children of
\* its superclasses / class_heritage / import list, and its other children.
NoCallee == [type |-> "none", parts |-> <<>>]

Node(type, name, kids) ==
    [type |-> type, name |-> name, value |-> "none", callee |-> NoCallee,
     module |-> <<>>, items |-> <<>>, kids |-> kids]

Call(type, callee) == [Node(type, "none", <<>>) EXCEPT !.callee = callee]

\* g()  and  a.b.m()
Callees(attribute) ==
    {[type |-> "identifier", parts |-> <<"g">>],
     [type |-> attribute, parts |-> <<"a", "b", "m">>]}

\* The base lists of a class: none, one identifier, an identifier and a
\* parameterized base.
BaseLists(generic) ==
    {<<>>, <<[type |-> "identifier", text |-> <<"A">>]>>,
     <<[type |-> "identifier", text |-> <<"A">>],
       [type |-> generic, text |-> <<"G", "[", "T", "]">>]>>}

\* Python:  g()   a.b.m()   import os   from .util import helper
PyLeaves ==
    {Call("call", c) : c \in Callees("attribute")}
    \cup {[Node("import_statement", "none", <<>>) EXCEPT
              !.items = <<[type |-> "dotted_name", text |-> <<"os">>]>>],
          [Node("import_from_statement", "none", <<>>) EXCEPT
              !.module = <<".", "util">>]}

\* Python statements that nest up to d deep:  def f(): ...   class B(...): ...
RECURSIVE PyNodes(_)
PyNodes(d) ==
    IF d = 0 THEN PyLeaves
    ELSE LET inner == PyNodes(d - 1)
         IN  inner
             \cup {Node("function_definition", "f", <<k>>) : k \in inner}
             \cup {[Node("class_definition", "B", <<k>>) EXCEPT !.items = b] :
                      k \in inner, b \in BaseLists("subscript")}

\* JavaScript:  g()   a.b.m()   import x from 'react'   import y from './util'
JsLeaves ==
    {Call("call_expression", c) : c \in Callees("member_expression")}
    \cup {[Node("import_statement", "none", <<>>) EXCEPT
              !.module = <<"'", "react", "'">>],
          [Node("import_statement", "none", <<>>) EXCEPT
              !.module = <<"'", ".", "/", "util", "'">>]}

\* const a = () => { k }
Arrow(k) ==
    Node("lexical_declaration", "none",
         <<[Node("variable_declarator", "a", <<Node("arrow_function", "none", <<k>>)>>)
               EXCEPT !.value = "arrow_function"]>>)

\* JavaScript statements that nest up to d deep: function f() {...},
\* const a = () => {...}, class B [extends ...] {...}, m() {...}
RECURSIVE JsNodes(_)
JsNodes(d) ==
    IF d = 0 THEN JsLeaves
    ELSE LET inner == JsNodes(d - 1)
         IN  inner
             \cup {Node("function_declaration", "f", <<k>>) : k \in inner}
             \cup {Arrow(k) : k \in inner}
             \cup {Node("method_definition", "m", <<k>>) : k \in inner}
             \cup {[Node("class_declaration", "B", <<k>>) EXCEPT !.items = b] :
                      k \in inner, b \in BaseLists("generic_type")}

\* The root of a file: one statement, or a statement and a call after it.
Roots(type, nodes, leaves) ==
    {Node(type, "none", <<k>>) : k \in nodes}
    \cup {Node(type, "none", <<k, c>>) : k \in nodes, c \in leaves}

\* The trees parser.parse can give for a file of the language.
Trees(language) ==
    CASE language = "python" ->
            Roots("module", PyNodes(MaxNest), {Call("call", c) : c \in Callees("attribute")})
      [] language \in {"javascript", "typescript"} ->
            Roots("program", JsNodes(MaxNest),
                  {Call("call_expression", c) : c \in Callees("member_expression")})
      [] OTHER -> {Node("source_file", "none", <<>>)}

\* ---------------------------------------------------------- extractors
\* What a traversal appends to symbols, relationships and imports.  "at" is
\* the place of the node in the tree (the path of child numbers from the
\* root), which stands for its source_line.
NoOutput == [symbols |-> <<>>, relationships |-> <<>>, imports |-> <<>>]

Cat(a, b) ==
    [symbols |-> a.symbols \o b.symbols,
     relationships |-> a.relationships \o b.relationships,
     imports |-> a.imports \o b.imports]

CodeSymbol(name, symbol_type, parent, at) ==
    [name |-> name, symbol_type |-> symbol_type, parent_symbol |-> parent, at |-> at]

\* CodeRelationship(...): is_external defaults to False.
CodeRelationship(source, target, relationship_type, at) ==
    [source_symbol |-> source, target_symbol |-> target,
     relationship_type |-> relationship_type, is_external |-> FALSE, at |-> at]

\* _extract_call_name: the identifier, or the last member of a.b.m
ExtractCallName(callee, attribute) ==
    IF callee.type = "identifier" THEN callee.parts
    ELSE IF callee.type = attribute /\ callee.parts # <<>>
    THEN <<callee.parts[Len(callee.parts)]>>
    ELSE <<>>

\* if context: ... relationships.append(CodeRelationship(..., "calls"))
CallOutput(node, at, context, attribute) ==
    LET callee == ExtractCallName(node.callee, attribute)
    IN  IF context # "None" /\ node.callee # NoCallee /\ callee # <<>>
        THEN [NoOutput EXCEPT !.relationships =
                 <<CodeRelationship(context, callee, "calls", at)>>]
        ELSE NoOutput

\* imports.append(module); relationships.append(CodeRelationship(...,
\* relationship_type="imports", is_external=True))
ImportOutput(module, at) ==
    [NoOutput EXCEPT
        !.imports = <<module>>,
        !.relationships =
            <<[CodeRelationship("__module__", module, "imports", at)
                  EXCEPT !.is_external = TRUE]>>]

\* for base in bases.children: if base.type == "identifier": ... "inherits"
RECURSIVE InheritsOutput(_, _, _)
InheritsOutput(class_name, bases, at) ==
    IF bases = <<>> THEN NoOutput
    ELSE Cat(IF Head(bases).type = "identifier"
             THEN [NoOutput EXCEPT !.relationships =
                      <<CodeRelationship(class_name, Head(bases).text, "inherits", at)>>]
             ELSE NoOutput,
             InheritsOutput(class_name, Tail(bases), at))

\* for child in node.children: if child.type == "dotted_name": ...
RECURSIVE PyImportNames(_, _)
PyImportNames(names, at) ==
    IF names = <<>> THEN NoOutput
    ELSE Cat(IF Head(names).type = "dotted_name"
             THEN ImportOutput(Head(names).text, at) ELSE NoOutput,
             PyImportNames(Tail(names), at))

\* PythonExtractor._traverse(node, ..., parent, context), and its loop over
\* node.children from child i on.
RECURSIVE PyTraverse(_, _, _, _)
RECURSIVE PyChildren(_, _, _, _, _)
PyTraverse(node, at, parent, context) ==
    IF node.type = "function_definition" /\ node.name # "none"
    THEN Cat([NoOutput EXCEPT !.symbols =
                 <<CodeSymbol(node.name,
                              IF parent # "None" THEN "method" ELSE "function",
                              parent, at)>>],
             PyChildren(node, at, 1, parent, node.name))
    ELSE IF node.type = "class_definition" /\ node.name # "none"
    THEN Cat(Cat([NoOutput EXCEPT !.symbols =
                     <<CodeSymbol(node.name, "class", "None", at)>>],
                 InheritsOutput(node.name, node.items, at)),
             PyChildren(node, at, 1, node.name, context))
    ELSE Cat(CASE node.type = "call" -> CallOutput(node, at, context, "attribute")
               [] node.type = "import_statement" -> PyImportNames(node.items, at)
               [] node.type = "import_from_statement" /\ node.module # <<>> ->
                     ImportOutput(node.module, at)
               [] OTHER -> NoOutput,
             PyChildren(node, at, 1, parent, context))

PyChildren(node, at, i, parent, context) ==
    IF i > Len(node.kids) THEN NoOutput
    ELSE Cat(PyTraverse(node.kids[i], Append(at, i), parent, context),
             PyChildren(node, at, i + 1, parent, context))

\* str.strip(q): the text without its leading and trailing q.
RECURSIVE Strip(_, _)
Strip(text, q) ==
    IF text # <<>> /\ Head(text) = q THEN Strip(Tail(text), q)
    ELSE IF text # <<>> /\ text[Len(text)] = q
    THEN Strip(SubSeq(text, 1, Len(text) - 1), q)
    ELSE text

\* for child in node.children: if child.type == "variable_declarator": a
\* symbol for a name whose value is an arrow function or a function.
RECURSIVE JsDeclarators(_, _, _, _)
JsDeclarators(node, at, i, parent) ==
    IF i > Len(node.kids) THEN NoOutput
    ELSE LET child == node.kids[i]
         IN  Cat(IF /\ child.type = "variable_declarator"
                    /\ child.name # "none"
                    /\ child.value \in {"arrow_function", "function"}
                 THEN [NoOutput EXCEPT !.symbols =
                          <<CodeSymbol(child.name, "function", parent, at)>>]
                 ELSE NoOutput,
                 JsDeclarators(node, at, i + 1, parent))

\* JavaScriptExtractor._traverse(node, ..., parent, context), and its loop
\* over node.children from child i on.
RECURSIVE JsTraverse(_, _, _, _)
RECURSIVE JsChildren(_, _, _, _, _)
JsTraverse(node, at, parent, context) ==
    IF node.type = "function_declaration" /\ node.name # "none"
    THEN Cat([NoOutput EXCEPT !.symbols =
                 <<CodeSymbol(node.name, "function", parent, at)>>],
             JsChildren(node, at, 1, parent, node.name))
    ELSE IF node.type = "class_declaration" /\ node.name # "none"
    THEN Cat([NoOutput EXCEPT !.symbols =
                 <<CodeSymbol(node.name, "class", "None", at)>>],
             JsChildren(node, at, 1, node.name, context))
    ELSE IF node.type = "method_definition" /\ node.name # "none" /\ parent # "None"
    THEN Cat([NoOutput EXCEPT !.symbols =
                 <<CodeSymbol(node.name, "method", parent, at)>>],
             JsChildren(node, at, 1, parent, node.name))
    ELSE Cat(CASE node.type = "lexical_declaration" -> JsDeclarators(node, at, 1, parent)
               [] node.type = "call_expression" ->
                     CallOutput(node, at, context, "member_expression")
               [] node.type = "import_statement" /\ node.module # <<>> ->
                     ImportOutput(Strip(Strip(node.module, "\""), "'"), at)
               [] OTHER -> NoOutput,
             JsChildren(node, at, 1, parent, context))

JsChildren(node, at, i, parent, context) ==
    IF i > Len(node.kids) THEN NoOutput
    ELSE Cat(JsTraverse(node.kids[i], Append(at, i), parent, context),
             JsChildren(node, at, i + 1, parent, context))

\* extractor.analyze_file(file_path, root, content)
AnalyzeFile(extractor, root) ==
    IF extractor = "PythonExtractor" THEN PyTraverse(root, <<>>, "None", "None")
    ELSE JsTraverse(root, <<>>, "None", "None")

\* ---------------------------------------------------------- analyze
\* FileAnalysisResult(file_path=file_path, error=...): the lists default to
\* empty.  how tells which return statement of analyze it comes from.
Pending ==
    [state |-> "pending", how |-> "none", error |-> "None", symbols |-> <<>>,
     relationships |-> <<>>, imports |-> <<>>]

ErrorResult(how, error) ==
    [Pending EXCEPT !.state = "returned", !.how = how, !.error = error]

\* str(e) of the exception the extractor raises: an exception built without
\* arguments has the empty string.
ExceptionMessages == {"", "maximum recursion depth exceeded"}

\* if not language: return FileAnalysisResult(error="Unsupported file type: ...")
AnalyzeUnsupported ==
    /\ result.state = "pending"
    /\ GetLanguageName(file) = "None"
    /\ result' = ErrorResult("unsupported", "Unsupported file type")
    /\ UNCHANGED <<file, tree>>

\* root = self.parse(content, language): the parser cannot be loaded or
\* raises, parse logs it and returns None.
AnalyzeParseFailed ==
    /\ result.state = "pending"
    /\ GetLanguageName(file) # "None"
    /\ result' = ErrorResult("parse_failed", "Failed to parse")
    /\ UNCHANGED <<file, tree>>

\* A variant in which get_extractor is called outside the try block.
AnalyzeNoExtractor_Raises ==
    /\ result.state = "pending"
    /\ GetLanguageName(file) \notin DOMAIN Extractors \cup {"None"}
    /\ result' = [Pending EXCEPT !.state = "raised", !.how = "no_extractor"]
    /\ UNCHANGED <<file, tree>>

\* get_extractor raises ValueError for a language without extractor; the
\* except clause of analyze turns it into an error result.
AnalyzeNoExtractor ==
    /\ result.state = "pending"
    /\ GetLanguageName(file) \notin DOMAIN Extractors \cup {"None"}
    /\ result' = ErrorResult("no_extractor", "No extractor available for language")
    /\ UNCHANGED <<file, tree>>

\* extractor.analyze_file raises; the except clause returns an error result.
AnalyzeExtractorRaised ==
    /\ result.state = "pending"
    /\ GetLanguageName(file) \in DOMAIN Extractors
    /\ \E message \in ExceptionMessages :
          result' = ErrorResult("extractor_raised", message)
    /\ UNCHANGED <<file, tree>>

\* result = extractor.analyze_file(file_path, root, content); return result
AnalyzeExtracted ==
    /\ result.state = "pending"
    /\ GetLanguageName(file) \in DOMAIN Extractors
    /\ LET out == AnalyzeFile(Extractors[GetLanguageName(file)], tree)
       IN  result' = [Pending EXCEPT !.state = "returned", !.how = "extracted",
                                     !.symbols = out.symbols,
                                     !.relationships = out.relationships,
                                     !.imports = out.imports]
    /\ UNCHANGED <<file, tree>>

\* No call of analyze is in progress.
ExtractIdle ==
    /\ file = "m.txt"
    /\ tree = Node("source_file", "none", <<>>)
    /\ result = Pending

\* analyze(file_path, content) is called on a file and the tree of its content.
ExtractInit ==
    /\ file \in SourceFiles
    /\ tree \in Trees(GetLanguageName(file))
    /\ result = Pending

ExtractOnly == UNCHANGED <<engineVars, workerVars>>

ExtractNext ==
    \/ AnalyzeUnsupported /\ ExtractOnly
    \/ AnalyzeParseFailed /\ ExtractOnly
    \/ AnalyzeNoExtractor /\ ExtractOnly
    \/ AnalyzeExtractorRaised /\ ExtractOnly
    \/ AnalyzeExtracted /\ ExtractOnly

\* The engine is checked with the worker as constructed over a repository
\* without ignore rules.
\* The engine after construction, the worker constructed and not started, no
\* analysis in progress.
EngineStart == Init /\ WorkerInit /\ gitignore = {} /\ ExtractIdle

Spec == EngineStart /\ [][Next]_vars

\* The worker constructed over either set of ignore rules.
WorkerStart == Init /\ WorkerInit /\ ExtractIdle

WorkerSpec == WorkerStart /\ [][WorkerNext]_vars

\* analyze called on a file, engine and worker as constructed.
ExtractStart == Init /\ WorkerInit /\ gitignore = {} /\ ExtractInit

ExtractSpec == ExtractStart /\ [][ExtractNext]_vars


\* ======================================================================
\* Properties of the scheduler
\* ======================================================================
TasksInCycle == {t \in DOMAIN tasks : tasks[t].cycle = "running"}

\* C11: the checkpoint never advances past a commit whose change was in no
\* cycle's change set: every commit up to _last_commit was in the range of
\* some cycle's scan or diff.
C11_CheckpointCovered ==
    last_commit # NoCommit => \A k \in 1..last_commit : k \in covered

\* C12: _last_commit is written once per cycle, by the step that ends a cycle
\* all of whose change events were attempted; a cycle that is cancelled or
\* left by an exception has written nothing, and leaves _last_commit as it
\* was for the delta of the next cycle.
C12_CheckpointOncePerCycle ==
    /\ [](\A t \in DOMAIN tasks :
            /\ tasks[t].cycle = "complete" => tasks[t].writes = 1 /\ tasks[t].attempted
            /\ tasks[t].cycle # "complete" => tasks[t].writes = 0)
    /\ [][last_commit' # last_commit =>
            \E t \in DOMAIN tasks :
                Live(tasks[t]) /\ tasks'[t].cycle = "complete"]_vars

\* C12 witness: an incremental cycle was left by an exception while the
\* repository is ahead of the checkpoint.
C12_Witness ==
    \E t \in DOMAIN tasks :
        /\ tasks[t].pc = "sleep" /\ tasks[t].cycle = "raised"
        /\ last_commit # NoCommit /\ last_commit < HeadCommit

\* C13: at most one loop task is alive and it is _task, at most one cycle
\* is running, start() while running creates no task, and a cycle begins
\* only when no other cycle is running.
C13_CyclesNeverOverlap ==
    /\ [](/\ \A t \in DOMAIN tasks : Live(tasks[t]) => t = CurrentTask
          /\ Cardinality(TasksInCycle) <= 1)
    /\ [][/\ running => Len(tasks') = Len(tasks)
          /\ \A t \in DOMAIN tasks' :
                (t \in DOMAIN tasks => tasks[t].pc \in {"created", "sleep"})
                /\ tasks'[t].cycle = "running"
                => \A u \in DOMAIN tasks : u # t => ~Live(tasks[u])]_vars

\* C13 witness: after start, stop, start the second loop runs its cycle
\* while the first task has not yet taken its CancelledError.
C13_Witness ==
    /\ Len(tasks) = 2
    /\ tasks[1].pc = "cancelling"
    /\ tasks[2].pc = "await" /\ tasks[2].cycle = "running"

\* C14: a cycle in which index_file or delete_file failed for a file, and
\* that was not cancelled, attempts every change event and writes its
\* checkpoint.
C14_FileErrorNeverAbortsCycle ==
    \A t \in DOMAIN tasks :
        (tasks[t].file_error /\ tasks[t].cycle \in {"complete", "raised"})
        => (tasks[t].cycle = "complete" /\ tasks[t].attempted /\ tasks[t].writes = 1)

\* C19: in a running cycle every change event the loop has reached has one
\* decision: delete_file exactly for a deletion, index_file exactly for
\* another event whose extension is in the allow-list, whose path the loaded
\* ignore rules do not match and in whose path no configured ignore pattern
\* occurs; the other events are skipped.
C19_DispatchByEligibility ==
    \A t \in TasksInCycle :
        LET task == tasks[t]
        IN  /\ Len(task.did) =
                  IF task.call \in {"index_file", "delete_file"}
                  THEN task.next ELSE task.next - 1
            /\ \A i \in DOMAIN task.did :
                  LET path == task.changes[i].path
                      deletion == task.changes[i].status = "deleted"
                      eligible ==
                          /\ Lower(Suffix(Text(path))) \in IndexableExtensions
                          /\ path \notin gitignore
                          /\ \A pattern \in IgnorePatterns : ~Occurs(pattern, Text(path))
                  IN  /\ task.did[i] = "delete_file" <=> deletion
                      /\ task.did[i] = "index_file" <=> (~deletion /\ eligible)

\* C19 witness: a scan in which a path is skipped for an ignore pattern, one
\* for its extension, one for .gitignore, and the fourth is being indexed.
C19_Witness ==
    \E t \in TasksInCycle :
        /\ tasks[t].pc = "await"
        /\ tasks[t].did = <<"skip", "skip", "skip", "index_file">>

\* C20: index_file on a path whose record is failed (whatever its stored
\* fingerprint) does not take the short cut: it persists in_progress and goes
\* on to delete the old chunks.
C20_FailedIsNeverShortCircuited ==
    [][\A p \in Paths : \A c \in Contents :
          (/\ faults' = faults
           /\ p \in DOMAIN records
           /\ records[p].status = "failed"
           /\ IndexFileStart(p, c))
          => (op'.pc = "delete_old" /\ records'[p].status = "in_progress")]_vars

\* C20 witness: index_file goes on with a file whose content hashes to the
\* fingerprint of its record, which carries the error of the failed attempt.
C20_Witness ==
    /\ op.kind = "index" /\ op.pc = "delete_old"
    /\ op.rec.error_message # "None"
    /\ op.rec.file_hash = Hash(op.content)

\* C23: after start and until stop the scheduler keeps cycling, whatever a
\* cycle raises: while the scheduler is running, its loop task has not been
\* ended by an exception.
C23_RunningKeepsCycling ==
    running => (CurrentTask > 0 /\ tasks[CurrentTask].pc # "dead")

\* C24: an index_file that is executing when stop is called runs to its end,
\* and its record finishes completed (index_file returns True) or failed (it
\* returns False), never in_progress (it raises); the cancelled cycle starts
\* no further event and writes no checkpoint.
C24_StoppedOperationFinishes ==
    \A t \in DOMAIN tasks :
        tasks[t].pc \in {"cancelling", "cancelled"} =>
            /\ tasks[t].writes = 0 /\ tasks[t].did = <<>>
            /\ (tasks[t].call = "index_file" /\ tasks[t].answer # "none")
               => tasks[t].answer \in {"true", "false"}

\* C27: at any time at most one index_file or delete_file is executing,
\* under any interleaving of start, stop and a following start.
C27_SingleWriter ==
    Cardinality({t \in DOMAIN tasks : InFlight(tasks[t])}) <= 1

\* The commits after the checkpoint that touch the path.
TouchedSinceCheckpoint(p) ==
    {k \in (last_commit + 1)..HeadCommit : k \in DOMAIN history /\ history[k].path = p}

C30_ScanNeverDeletes ==
    \A t \in DOMAIN tasks :
        (tasks[t].cycle = "running" /\ ~tasks[t].diff) =>
            /\ \A i \in DOMAIN tasks[t].changes :
                  /\ tasks[t].changes[i].status = "added"
                  /\ \E h \in 0..HeadCommit :
                        Version(tasks[t].changes[i].path, h) # NoFile
            /\ tasks[t].call # "delete_file"
            /\ \A i \in DOMAIN tasks[t].did : tasks[t].did[i] # "delete_file"

\* C30 witness: a fallback scan is running while a committed file is gone
\* from the tree; the scan has no event for it.
C30_Witness ==
    \E t \in DOMAIN tasks : \E p \in Edited :
        /\ tasks[t].cycle = "running" /\ ~tasks[t].diff /\ ~tasks[t].full
        /\ tasks[t].pc = "await"
        /\ Version(p, HeadCommit) = NoFile
        /\ \A i \in DOMAIN tasks[t].changes : tasks[t].changes[i].path # p

\* ---------------------------------------------------------- properties of the analyzers
\* The places of the nodes of a tree, and the node at a place.
RECURSIVE Places(_)
Places(node) ==
    {<<>>} \cup UNION {{<<i>> \o q : q \in Places(node.kids[i])} : i \in DOMAIN node.kids}

RECURSIVE NodeAt(_, _)
NodeAt(node, place) ==
    IF place = <<>> THEN node ELSE NodeAt(node.kids[Head(place)], Tail(place))

IsProperPrefix(a, b) == Len(a) < Len(b) /\ SubSeq(b, 1, Len(a)) = a

\* A module specifier is relative when it starts with a dot (.util, ./util).
Relative(module) == module # <<>> /\ Head(module) = "."

Extracted == result.state = "returned" /\ result.how = "extracted"

\* C15: every import node yields an imports relationship, and the is_external
\* flag of an imports relationship is true for an absolute or bare module
\* specifier and false for a relative one, in both extractors.
C15_ExternalOnlyForAbsoluteImports ==
    Extracted =>
        /\ \A place \in Places(tree) :
              NodeAt(tree, place).type \in {"import_statement", "import_from_statement"}
              => \E i \in DOMAIN result.relationships :
                    /\ result.relationships[i].relationship_type = "imports"
                    /\ result.relationships[i].at = place
        /\ \A i \in DOMAIN result.relationships :
              result.relationships[i].relationship_type = "imports"
              => (result.relationships[i].is_external
                    <=> ~Relative(result.relationships[i].target_symbol))

\* C16: for every class declared with bases, the extractor of the file's
\* language emits exactly one inherits relationship from the class to each
\* identifier-shaped base, in order, and none for any other base.
C16_InheritsPerIdentifierBase ==
    Extracted =>
        \A place \in Places(tree) :
            LET node == NodeAt(tree, place)
                IsInherits(r) == r.relationship_type = "inherits" /\ r.at = place
                IsIdentifier(b) == b.type = "identifier"
                got == SelectSeq(result.relationships, IsInherits)
                want == SelectSeq(node.items, IsIdentifier)
            IN  node.type \in {"class_definition", "class_declaration"}
                => /\ Len(got) = Len(want)
                   /\ \A i \in DOMAIN got :
                         /\ got[i].source_symbol = node.name
                         /\ got[i].target_symbol = want[i].text

\* C17: every calls relationship has as source the innermost enclosing
\* function or method for which a symbol was emitted; a call that no such
\* function encloses (at module level, or after the body of a function has
\* been left) emits no relationship.
C17_CallsAttributedToInnermost ==
    Extracted =>
        \A i \in DOMAIN result.relationships :
            LET r == result.relationships[i]
                enclosing == {j \in DOMAIN result.symbols :
                                 /\ result.symbols[j].symbol_type \in {"function", "method"}
                                 /\ IsProperPrefix(result.symbols[j].at, r.at)}
            IN  r.relationship_type = "calls"
                => \E j \in enclosing :
                      /\ \A k \in enclosing :
                            Len(result.symbols[k].at) <= Len(result.symbols[j].at)
                      /\ r.source_symbol = result.symbols[j].name

====
